---- MODULE Spec2Model ----
(***************************************************************************)
(* CupaX analysis agent (src/agent/agent.py): archive extraction with      *)
(* password fallback, supervised execution of the monitoring tool with     *)
(* guaranteed cleanup, and the /analyze and /cleanup request handlers.     *)
(***************************************************************************)
EXTENDS Integers, Sequences, FiniteSets, TLC

\* ------------------------------------------------------------------------
\* Python values
\* ------------------------------------------------------------------------

\* Python's None (an absent form field, a failed extract_zip).
None == "<None>"

\* Truth value of an Optional[str] in `if password:` / `if not analysis_id:`.
Truthy(s) == s # None /\ s # ""

\* ------------------------------------------------------------------------
\* Archives and extraction attempts
\* ------------------------------------------------------------------------

\* An archive is protected by one password, or by none (Unprotected).
Unprotected == "<unprotected>"

\* The passwords an archive may carry: every entry of the fallback list and
\* one that is not in it.
ArchivePasswords ==
    {Unprotected, "infected", "malware", "virus", "password", "s3cret"}

\* The values of the optional `password` form field.
SuppliedPasswords == {None, "", "infected", "s3cret"}

\* One invocation of the extraction tool on an archive protected by `apw`
\* with password argument `p`, as attempt number n (faultAt: the attempt that
\* does not return normally, 0 for none):
\*   "ok"   return code 0 / extractall returned
\*   "fail" nonzero return code / RuntimeError (password missing or wrong)
\*   "exc"  any other exception: the 30 s timeout or an OSError of
\*          subprocess.run; in zipfile, BadZipFile or zlib.error, which a
\*          wrong password raises when it passes the one-byte password check
\*          of the archive and the decrypted data then fail the CRC
Invoke(apw, p, n, faultAt) ==
    IF n = faultAt THEN "exc"
    ELSE IF apw = Unprotected \/ apw = p THEN "ok"
    ELSE "fail"

\* Result of a backend: the boolean it returns and the password arguments of
\* the invocations it made, in order.
Outcome(ok, tried) == [success |-> ok, attempts |-> tried]

\* ---- 7z ----------------------------------------------------------------
common_passwords_7z == <<"infected", "malware", "virus", "password">>

RECURSIVE Loop7z(_, _, _, _)
Loop7z(apw, i, tried, faultAt) ==
    IF i > Len(common_passwords_7z) THEN Outcome(FALSE, tried)
    ELSE LET pwd == common_passwords_7z[i]
             rc  == Invoke(apw, pwd, Len(tried) + 1, faultAt)
             now == Append(tried, pwd)
         IN  IF rc = "exc" THEN Outcome(FALSE, now)
             ELSE IF rc = "ok" THEN Outcome(TRUE, now)
             ELSE Loop7z(apw, i + 1, now, faultAt)

_extract_with_7z_AlwaysFallback(apw, password, faultAt) ==
    LET first == IF Truthy(password) THEN password ELSE ""
        rc    == Invoke(apw, first, 1, faultAt)
    IN  IF rc = "exc" THEN Outcome(FALSE, <<first>>)
        ELSE IF rc = "ok" THEN Outcome(TRUE, <<first>>)
        ELSE Loop7z(apw, 1, <<first>>, faultAt)

\* _extract_with_7z: "-p<password>" when a password is given, else "-p" (the
\* empty password) and then the fallback list.
_extract_with_7z(apw, password, faultAt) ==
    LET first == IF Truthy(password) THEN password ELSE ""
        rc    == Invoke(apw, first, 1, faultAt)
    IN  IF rc = "exc" THEN Outcome(FALSE, <<first>>)
        ELSE IF rc = "ok" THEN Outcome(TRUE, <<first>>)
        ELSE IF ~Truthy(password) THEN Loop7z(apw, 1, <<first>>, faultAt)
        ELSE Outcome(FALSE, <<first>>)

\* ---- unzip -------------------------------------------------------------
common_passwords_unzip == <<"infected", "malware", "virus", "password">>

RECURSIVE LoopUnzip(_, _, _, _)
LoopUnzip(apw, i, tried, faultAt) ==
    IF i > Len(common_passwords_unzip) THEN Outcome(FALSE, tried)
    ELSE LET pwd == common_passwords_unzip[i]
             rc  == Invoke(apw, pwd, Len(tried) + 1, faultAt)
             now == Append(tried, pwd)
         IN  IF rc = "exc" THEN Outcome(FALSE, now)
             ELSE IF rc = "ok" THEN Outcome(TRUE, now)
             ELSE LoopUnzip(apw, i + 1, now, faultAt)

\* _extract_with_unzip: "-P <password>" when a password is given, else no
\* password argument and then the fallback list.
_extract_with_unzip(apw, password, faultAt) ==
    LET first == IF Truthy(password) THEN password ELSE None
        rc    == Invoke(apw, first, 1, faultAt)
    IN  IF rc = "exc" THEN Outcome(FALSE, <<first>>)
        ELSE IF rc = "ok" THEN Outcome(TRUE, <<first>>)
        ELSE IF ~Truthy(password) THEN LoopUnzip(apw, 1, <<first>>, faultAt)
        ELSE Outcome(FALSE, <<first>>)

\* ---- python zipfile ----------------------------------------------------
common_passwords_python == <<"infected", "malware", "virus", "password">>

\* for pwd in common_passwords: try extractall(pwd) / except RuntimeError:
\* continue.  Any other exception leaves the loop for the outer handler.
RECURSIVE LoopPython(_, _, _, _)
LoopPython(apw, i, tried, faultAt) ==
    IF i > Len(common_passwords_python) THEN Outcome(FALSE, tried)
    ELSE LET pwd == common_passwords_python[i]
             rc  == Invoke(apw, pwd, Len(tried) + 1, faultAt)
             now == Append(tried, pwd)
         IN  IF rc = "exc" THEN Outcome(FALSE, now)
             ELSE IF rc = "ok" THEN Outcome(TRUE, now)
             ELSE LoopPython(apw, i + 1, now, faultAt)

\* _extract_with_python: with a password one extractall(pwd=...), whose
\* RuntimeError is caught by the outer handler; without one extractall()
\* and, on RuntimeError, the fallback list.
_extract_with_python(apw, password, faultAt) ==
    IF Truthy(password)
    THEN LET rc == Invoke(apw, password, 1, faultAt)
         IN  Outcome(rc = "ok", <<password>>)
    ELSE LET rc == Invoke(apw, None, 1, faultAt)
         IN  IF rc = "ok" THEN Outcome(TRUE, <<None>>)
             ELSE IF rc = "fail" THEN LoopPython(apw, 1, <<None>>, faultAt)
             ELSE Outcome(FALSE, <<None>>)

\* Every backend makes at most 1 + 4 invocations.
MaxAttempts == 1 + Len(common_passwords_7z)

\* The attempt (1-based) at which the backend invocation does not return
\* normally (subprocess.TimeoutExpired after 30 s, OSError, BadZipFile, ...).
\* 0: no attempt is disturbed.
FaultPositions == 0..MaxAttempts

\* ---- backend selection -------------------------------------------------
UnzipTools == {"7z", "unzip", "python"}

\* What disturbs the attempt faultAt: it raises, or it does not finish.
FaultKinds == {"raise", "hang"}

\* extract_zip, lines 222-227: the configured backend.
RunBackend(tool, apw, password, faultAt) ==
    IF tool = "7z" THEN _extract_with_7z(apw, password, faultAt)
    ELSE IF tool = "unzip" THEN _extract_with_unzip(apw, password, faultAt)
    ELSE _extract_with_python(apw, password, faultAt)

\* An attempt that does not finish.  subprocess.run(..., timeout=30) kills
\* the child after 30 s and raises TimeoutExpired, which is the "exc" of
\* Invoke; zip_ref.extractall takes no timeout, so in the python backend the
\* call does not return and neither does the backend.
Hangs(tool, apw, password, faultAt, fault) ==
    /\ fault = "hang" /\ tool = "python"
    /\ faultAt \in 1..Len(RunBackend(tool, apw, password, faultAt).attempts)

\* ------------------------------------------------------------------------
\* Files and the search for the sample
\* ------------------------------------------------------------------------

\* A file inside a directory: its stem, its extension and how many
\* directories lie between it and the directory searched.
File(n, e, d) == [name |-> n, ext |-> e, depth |-> d]

\* The enumeration orders a directory listing can have: every permutation
\* of its files.
Listings(S) ==
    {s \in [1..Cardinality(S) -> S] : \A i, j \in 1..Cardinality(S) : s[i] = s[j] => i = j}

executable_exts == <<"exe", "dll", "scr", "bat", "cmd", "ps1">>

\* extract_dir.glob('*.<ext>'): the files of the directory itself.
Glob(listing, e) ==
    LET Match(f) == f.ext = e /\ f.depth = 0 IN SelectSeq(listing, Match)

\* extract_dir.glob('**/*.<ext>'): the files at any depth.
GlobRec(listing, e) ==
    LET Match(f) == f.ext = e IN SelectSeq(listing, Match)

\* for ext in [...]: executables.extend(glob(ext)); extend(glob('**/'+ext))
RECURSIVE Executables(_, _)
Executables(listing, i) ==
    IF i > Len(executable_exts) THEN <<>>
    ELSE Glob(listing, executable_exts[i]) \o GlobRec(listing, executable_exts[i])
         \o Executables(listing, i + 1)

NoFile == File("", "", 0)

FindExecutable_FirstListed(listing) ==
    LET Match(f) == \E i \in 1..Len(executable_exts) : f.ext = executable_exts[i]
        found == SelectSeq(listing, Match)
    IN  IF found = <<>> THEN NoFile ELSE found[1]

\* extract_zip, lines 233-246: executables[0], or nothing.
FindExecutable(listing) ==
    LET executables == Executables(listing, 1)
    IN  IF executables = <<>> THEN NoFile ELSE executables[1]

\* extract_zip, lines 222-246, on an extraction directory whose listing after
\* a successful extraction is `listing`: what the backend did, the sample
\* returned (NoFile for Python's None) and the line logged.
extract_zip(tool, apw, password, faultAt, listing) ==
    LET b   == RunBackend(tool, apw, password, faultAt)
        exe == FindExecutable(listing)
    IN  IF ~b.success
        THEN [backend |-> b, sample |-> NoFile, log |-> "Failed to extract zip file"]
        ELSE IF exe = NoFile
        THEN [backend |-> b, sample |-> NoFile, log |-> "No executable found in zip"]
        ELSE [backend |-> b, sample |-> exe, log |-> "Extracted executable"]

\* ------------------------------------------------------------------------
\* The working directory
\* ------------------------------------------------------------------------

\* Analysis identifiers the callers use, as the sequence of their parts: any
\* non-empty string of the form field is one, "a_extracted" as well as "a".
Ids == {<<"a">>, <<"b">>, <<"a", "_extracted">>}

\* A missing or empty analysis_id form field.
NoId == <<>>

\* Extensions of the uploaded file's original name.
Exts == {".exe", ".zip"}

\* work_dir / analysis_id
OutputDir(id) == id

\* work_dir / f"{analysis_id}_extracted"
ExtractDir(id) == Append(id, "_extracted")

\* work_dir / f"{analysis_id}_upload{file_ext}"
Upload(id, e) == IF e = "" THEN Append(id, "_upload") ELSE id \o <<"_upload", e>>

Paths ==
    UNION {{OutputDir(id), ExtractDir(id)} \cup {Upload(id, e) : e \in Exts} : id \in Ids}

Absent == [kind |-> "absent", files |-> {}]
RegularFile == [kind |-> "file", files |-> {}]
Dir(S) == [kind |-> "dir", files |-> S]

\* os.path.exists / Path.exists
Exists(d, p) == d[p].kind # "absent"

\* Path.mkdir(exist_ok=True, parents=True): raises when the path is a file.
MkdirRaises(d, p) == d[p].kind = "file"
Mkdir(d, p) == IF d[p].kind = "absent" THEN [d EXCEPT ![p] = Dir({})] ELSE d

\* A sample path: a top-level path of the working directory, or a file
\* inside a top-level directory.
SamplePath(p, f) == [top |-> p, inner |-> f]
NoSample == SamplePath(<<>>, NoFile)

SampleExists(d, sp) ==
    IF sp.inner = NoFile THEN Exists(d, sp.top)
    ELSE d[sp.top].kind = "dir" /\ sp.inner \in d[sp.top].files

\* os.remove(sample_path): only a regular file can be removed.
RemoveFile(d, sp) ==
    IF sp.inner = NoFile
    THEN IF d[sp.top].kind = "file" THEN [d EXCEPT ![sp.top] = Absent] ELSE d
    ELSE [d EXCEPT ![sp.top].files = @ \ {sp.inner}]

\* shutil.rmtree(path): only a directory can be removed.
Rmtree(d, p) == IF d[p].kind = "dir" THEN [d EXCEPT ![p] = Absent] ELSE d

\* The two output artifacts of the monitoring tool.
SummaryFile == File("Noriben_1", "txt", 0)
TimelineFile == File("Noriben_1_timeline", "csv", 0)

\* output_path.glob("Noriben_*.txt") / glob("Noriben_*_timeline.csv")
TxtFiles(d, p) == IF d[p].kind = "dir" THEN d[p].files \cap {SummaryFile} ELSE {}
CsvFiles(d, p) == IF d[p].kind = "dir" THEN d[p].files \cap {TimelineFile} ELSE {}

\* ------------------------------------------------------------------------
\* run_noriben
\* ------------------------------------------------------------------------

\* The dict run_noriben returns; NoResult while it has not returned.
Result(ok, err, det, rep) ==
    [success |-> ok, error |-> err, detail |-> det, report |-> rep]
NoResult == Result(FALSE, "", "", None)

\* How the monitoring subprocess can end: exit code 0, a nonzero exit code,
\* no exit within ANALYSIS_TIMEOUT + 60 (TimeoutExpired, the child killed),
\* or any other exception of subprocess.run.
ToolOutcomes == {"exit0", "nonzero", "timeout", "exception"}

\* What the tool may have written on stderr.
Stderrs == {"", "procmon not found"}

\* parse_results, lines 471-504: None unless both artifacts are found.
parse_results(d, od) ==
    IF TxtFiles(d, od) = {} \/ CsvFiles(d, od) = {} THEN None ELSE "report"

\* What run_noriben decided: the dict to return and whether parse_results
\* was called.
Decision(res, parserCalled) == [result |-> res, parsed |-> parserCalled]

ParseAndReport_ExecutionMessage(d, od) ==
    IF parse_results(d, od) = None
    THEN Decision(Result(FALSE, "Noriben execution failed", "", None), TRUE)
    ELSE Decision(Result(TRUE, "", "", parse_results(d, od)), TRUE)

\* lines 427-437: the result run_noriben builds from what parse_results
\* returned.
ReportResult(report) ==
    IF report = None THEN Result(FALSE, "Failed to parse Noriben output", "", None)
    ELSE Result(TRUE, "", "", report)

\* lines 425-437: parse the output directory and build the result.
ParseAndReport(d, od) ==
    IF parse_results(d, od) = None
    THEN Decision(Result(FALSE, "Failed to parse Noriben output", "", None), TRUE)
    ELSE Decision(Result(TRUE, "", "", parse_results(d, od)), TRUE)

Supervise_IgnoresExitCode(outcome, stderr, d, od) ==
    IF outcome = "timeout"
    THEN Decision(Result(FALSE, "Analysis timeout", "", None), FALSE)
    ELSE IF outcome = "exception"
    THEN Decision(Result(FALSE, "exception", "", None), FALSE)
    ELSE ParseAndReport(d, od)

Supervise_TimeoutUnhandled(outcome, stderr, d, od) ==
    IF outcome \in {"exception", "timeout"}
    THEN Decision(Result(FALSE, "exception", "", None), FALSE)
    ELSE IF outcome = "nonzero"
    THEN Decision(Result(FALSE, "Noriben execution failed", stderr, None), FALSE)
    ELSE ParseAndReport(d, od)

\* run_noriben, lines 403-450: the value returned once the subprocess has
\* ended with `outcome`, the output directory being od of the tree d.
Supervise(outcome, stderr, d, od) ==
    IF outcome = "timeout"
    THEN Decision(Result(FALSE, "Analysis timeout", "", None), FALSE)
    ELSE IF outcome = "exception"
    THEN Decision(Result(FALSE, "exception", "", None), FALSE)
    ELSE IF outcome = "nonzero"
    THEN Decision(Result(FALSE, "Noriben execution failed", stderr, None), FALSE)
    ELSE ParseAndReport(d, od)

FinallyCleanup_KeepsExtractDir(d, sp, id, sampleOk, treeOk) ==
    IF SampleExists(d, sp) /\ sampleOk THEN RemoveFile(d, sp) ELSE d

FinallyCleanup_RemovesOutput(d, sp, id, sampleOk, treeOk) ==
    LET d1 == IF SampleExists(d, sp) /\ sampleOk THEN RemoveFile(d, sp) ELSE d
        d2 == IF Exists(d1, ExtractDir(id)) /\ treeOk
              THEN Rmtree(d1, ExtractDir(id)) ELSE d1
    IN  Rmtree(d2, OutputDir(id))

FinallyCleanup_StopsAfterSampleFailure(d, sp, id, sampleOk, treeOk) ==
    IF SampleExists(d, sp) /\ ~sampleOk THEN d
    ELSE LET d1 == IF SampleExists(d, sp) THEN RemoveFile(d, sp) ELSE d
         IN  IF Exists(d1, ExtractDir(id)) /\ treeOk
             THEN Rmtree(d1, ExtractDir(id)) ELSE d1

\* run_noriben, lines 451-467 (finally): remove the sample if it exists, then
\* the extraction directory if it exists.  sampleOk / treeOk: whether
\* os.remove / shutil.rmtree complete without raising.
FinallyCleanup(d, sp, id, sampleOk, treeOk) ==
    LET d1 == IF SampleExists(d, sp) /\ sampleOk THEN RemoveFile(d, sp) ELSE d
    IN  IF Exists(d1, ExtractDir(id)) /\ treeOk
        THEN Rmtree(d1, ExtractDir(id)) ELSE d1

\* The removals of the finally block that raise (the two `except` branches
\* that log a warning, lines 457-458 and 466-467).
CleanupFailures(d, sp, id, sampleOk, treeOk) ==
    (IF SampleExists(d, sp)
        /\ (~sampleOk \/ (sp.inner = NoFile /\ d[sp.top].kind # "file"))
     THEN {"sample"} ELSE {})
    \cup (IF Exists(d, ExtractDir(id)) /\ (~treeOk \/ d[ExtractDir(id)].kind # "dir")
          THEN {"extract_dir"} ELSE {})

\* ------------------------------------------------------------------------
\* NoribenParser.parse_csv_timeline
\* ------------------------------------------------------------------------

\* A row is the list of strings csv.reader yields for it.  ReaderError stands
\* for a Registry row at which the reader raises instead of yielding it
\* (csv.Error "field larger than field limit" for a value of more than
\* 131072 characters, an OSError of the read).
ReaderError == <<"<csv.Error>", "Registry">>

\* A key the event dict does not have.
Unset == "<unset>"

\* row[i] if len(row) > i else ""  (i counts from 0)
Col(row, i) == IF Len(row) > i THEN row[i + 1] ELSE ""

\* event[key] = row[i] if row[i] else "", set only when len(row) > i
Opt(row, i) == IF Len(row) > i THEN row[i + 1] ELSE Unset

\* operation.split(' ', 1) on the operations of the model.
SplitOperation(op) ==
    IF op = "TCP Send" THEN <<"TCP", "Send">>
    ELSE IF op = "UDP Receive" THEN <<"UDP", "Receive">>
    ELSE <<op>>

\* lines 139-145
ProcessEvent(row) ==
    [timestamp |-> row[1], process_name |-> Col(row, 3), pid |-> Col(row, 4),
     command_line |-> Col(row, 5), child_pid |-> Col(row, 6)]

\* lines 148-166
FileEvent(row) ==
    [timestamp |-> row[1], operation |-> row[3], process_name |-> Col(row, 3),
     pid |-> Col(row, 4), path |-> Col(row, 5),
     hash_type |-> Opt(row, 6), hash |-> Opt(row, 7),
     yara_hits |-> Opt(row, 8), vt_hits |-> Opt(row, 9),
     to_path |-> IF row[3] = "RenameFile" /\ Len(row) > 6 THEN row[7] ELSE Unset]

\* lines 171-178
RegistryEvent(row) ==
    [timestamp |-> row[1], operation |-> row[3], process_name |-> Col(row, 3),
     pid |-> Col(row, 4), path |-> Col(row, 5), data |-> Col(row, 6)]

\* lines 182-196
NetworkEvent(row) ==
    LET parts == SplitOperation(row[3])
    IN  [timestamp |-> row[1],
         protocol |-> parts[1],
         direction |-> IF Len(parts) > 1 THEN parts[2] ELSE "Unknown",
         process_name |-> Col(row, 3), pid |-> Col(row, 4),
         remote_addr |-> Col(row, 5)]

\* lines 120-125
NoEvents ==
    [process_activity |-> <<>>, file_system |-> <<>>, registry |-> <<>>,
     network |-> <<>>]

AddRow_NeedsAllColumns(events, row) ==
    IF Len(row) < 6 THEN events
    ELSE IF row[2] = "Process"
    THEN [events EXCEPT !.process_activity = Append(@, ProcessEvent(row))]
    ELSE IF row[2] = "File"
    THEN [events EXCEPT !.file_system = Append(@, FileEvent(row))]
    ELSE IF row[2] = "Registry"
    THEN [events EXCEPT !.registry = Append(@, RegistryEvent(row))]
    ELSE IF row[2] = "Network"
    THEN [events EXCEPT !.network = Append(@, NetworkEvent(row))]
    ELSE events

AddRow_Prepends(events, row) ==
    IF Len(row) < 3 THEN events
    ELSE IF row[2] = "Process"
    THEN [events EXCEPT !.process_activity = <<ProcessEvent(row)>> \o @]
    ELSE IF row[2] = "File"
    THEN [events EXCEPT !.file_system = <<FileEvent(row)>> \o @]
    ELSE IF row[2] = "Registry"
    THEN [events EXCEPT !.registry = <<RegistryEvent(row)>> \o @]
    ELSE IF row[2] = "Network"
    THEN [events EXCEPT !.network = <<NetworkEvent(row)>> \o @]
    ELSE events

\* lines 131-197: the body of the loop for one row.
AddRow(events, row) ==
    IF Len(row) < 3 THEN events
    ELSE IF row[2] = "Process"
    THEN [events EXCEPT !.process_activity = Append(@, ProcessEvent(row))]
    ELSE IF row[2] = "File"
    THEN [events EXCEPT !.file_system = Append(@, FileEvent(row))]
    ELSE IF row[2] = "Registry"
    THEN [events EXCEPT !.registry = Append(@, RegistryEvent(row))]
    ELSE IF row[2] = "Network"
    THEN [events EXCEPT !.network = Append(@, NetworkEvent(row))]
    ELSE events

\* lines 127-203: for row in reader, inside one try; an exception of the
\* reader ends the loop and the events collected so far are returned.
RECURSIVE ReadRows(_, _, _)
ReadRows(rows, i, events) ==
    IF i > Len(rows) THEN events
    ELSE IF rows[i] = ReaderError THEN events
    ELSE ReadRows(rows, i + 1, AddRow(events, rows[i]))

parse_csv_timeline(rows) == ReadRows(rows, 1, NoEvents)

\* ------------------------------------------------------------------------
\* NoribenParser.parse_txt_report
\* ------------------------------------------------------------------------

\* The summary file is its text split at '\n': a sequence of lines, the last
\* of which is empty when the text ends with a newline.

\* A line of at least 15 '=' and a shorter one.
Rule == "=================="
ShortRule == "===="

\* ={15,}
IsRule(l) == l = Rule

\* l.strip() on the lines of the model.
Strip(l) ==
    IF l = "  " THEN ""
    ELSE IF l = "10.0.0.1 " THEN "10.0.0.1"
    ELSE l

\* Group 1 of r'<label> time: ([\d.]+) seconds' on a line, None without a
\* match.
TimeText(label, l) ==
    IF label = "Execution" /\ l = "Execution time: 12.5 seconds" THEN "12.5"
    ELSE IF label = "Execution" /\ l = "Execution time: 1.2.3 seconds" THEN "1.2.3"
    ELSE IF label = "Processing" /\ l = "Processing time: 3.0 seconds" THEN "3.0"
    ELSE IF label = "Analysis" /\ l = "Analysis time: 7 seconds" THEN "7"
    ELSE None

\* float(text), in tenths of a second; it raises ValueError on a text that is
\* made of digits and dots but is no number.
FloatRaises(text) == text \notin {"12.5", "3.0", "7"}
Float(text) ==
    IF text = "12.5" THEN 125 ELSE IF text = "3.0" THEN 30 ELSE 70

\* re.search: the first line the label's pattern matches, 0 for no match.
TimeMatch(lines, label) ==
    IF \E i \in 1..Len(lines) : TimeText(label, lines[i]) # None
    THEN CHOOSE i \in 1..Len(lines) :
            /\ TimeText(label, lines[i]) # None
            /\ \A j \in 1..(i - 1) : TimeText(label, lines[j]) = None
    ELSE 0

\* lines 74-84: the value of a timing field, 0.0 without a match.
TimeValue(lines, label) ==
    IF TimeMatch(lines, label) = 0 THEN 0
    ELSE Float(TimeText(label, lines[TimeMatch(lines, label)]))

\* The conversion of the label's match raises.
TimeRaises(lines, label) ==
    /\ TimeMatch(lines, label) # 0
    /\ FloatRaises(TimeText(label, lines[TimeMatch(lines, label)]))

\* re.search(r'<heading>\n={15,}\n(.*?)(?:\n\n|\Z)', content, re.DOTALL):
\* where the first match of '<heading>\n={15,}\n' is, as the position of the
\* line after the rule (0 for no match) ...
GroupStart(lines, heading) ==
    LET Starts == {h \in 1..(Len(lines) - 2) :
                      lines[h] = heading /\ IsRule(lines[h + 1])}
    IN  IF Starts = {} THEN 0
        ELSE 2 + CHOOSE h \in Starts : \A g \in Starts : h <= g

\* ... and the last line of the lazy group: the first line from there that
\* is followed by '\n\n', that is by an empty line that is not the last;
\* else the last line of the text.
GroupEnd(lines, first) ==
    LET Ends == {j \in first..(Len(lines) - 2) : lines[j + 1] = ""}
    IN  IF Ends = {} THEN Len(lines)
        ELSE CHOOSE j \in Ends : \A k \in Ends : j <= k

\* [l for l in group.split('\n') if l.strip()]: the lines of the group that
\* are not blank, as positions in the text.
GroupLines(lines, heading) ==
    IF GroupStart(lines, heading) = 0 THEN {}
    ELSE {i \in GroupStart(lines, heading)..GroupEnd(lines, GroupStart(lines, heading)) :
             Strip(lines[i]) # ""}

\* len([...]), 0 without a match (lines 87-101)
SectionCount(lines, heading) == Cardinality(GroupLines(lines, heading))

\* The stripped lines of a set of positions, in text order.
RECURSIVE StrippedLines(_, _, _)
StrippedLines(lines, S, i) ==
    IF i > Len(lines) THEN <<>>
    ELSE (IF i \in S THEN <<Strip(lines[i])>> ELSE <<>>) \o StrippedLines(lines, S, i + 1)

\* lines 104-107
UniqueHosts(lines) == StrippedLines(lines, GroupLines(lines, "Unique Hosts:"), 1)

\* The value of a key the summary dict does not have.
Missing == -1

\* The dict {} of the except branch: no key is set.
EmptySummary ==
    [execution_time |-> Missing, processing_time |-> Missing,
     analysis_time |-> Missing, processes_created |-> Missing,
     files_created |-> Missing, registry_modified |-> Missing,
     network_connections |-> Missing]

\* lines 111-113
FailedReport == [summary |-> EmptySummary, unique_hosts |-> <<>>]

\* lines 59-113: everything is inside one try; a ValueError of any float()
\* gives the result of the except branch.
parse_txt_report(lines) ==
    IF \E label \in {"Execution", "Processing", "Analysis"} : TimeRaises(lines, label)
    THEN FailedReport
    ELSE [summary |->
            [execution_time |-> TimeValue(lines, "Execution"),
             processing_time |-> TimeValue(lines, "Processing"),
             analysis_time |-> TimeValue(lines, "Analysis"),
             processes_created |-> SectionCount(lines, "Processes Created:"),
             files_created |-> SectionCount(lines, "File Activity:"),
             registry_modified |-> SectionCount(lines, "Registry Activity:"),
             network_connections |-> SectionCount(lines, "Network Traffic:")],
          unique_hosts |-> UniqueHosts(lines)]

\* ------------------------------------------------------------------------
\* State
\* ------------------------------------------------------------------------

\* Request slots: the requests the (threaded) server may be handling at once.
Reqs == {"r1", "r2"}

VARIABLES
    unzipTool,  \* UNZIP_TOOL, read once at start
    fs,         \* the working directory: path -> entry
    pc,         \* per request: position in the analyze handler
    req,        \* per request: analysis_id, is_zip, file extension
    sample,     \* per request: sample_path
    resp,       \* per request: the HTTP answer
    hist,       \* per request: what the handler did so far
    cleaned,    \* the answer of the last DELETE /cleanup
    ex,         \* extract_zip applied to drawn inputs (SpecExtract)
    tl,         \* parse_csv_timeline applied to a drawn file (SpecTimeline)
    txt,        \* parse_txt_report applied to a drawn file (SpecSummary)
    pr          \* parse_results, step by step (SpecParse)

vars == <<unzipTool, fs, pc, req, sample, resp, hist, cleaned, ex, tl, txt, pr>>

NoReq == [id |-> NoId, is_zip |-> FALSE, ext |-> ""]

Response(st, res) == [status |-> st, body |-> res]
NoResp == Response(0, NoResult)

NoHist ==
    [extract |-> "", spawned |-> FALSE, tool |-> "", stderr |-> "",
     parsed |-> FALSE, written |-> {}, result |-> NoResult, failed |-> {}]

NoCleanup == [id |-> NoId, status |-> 0, success |-> FALSE]

NoTimeline == [stage |-> "off", rows |-> <<>>, events |-> NoEvents]

NoSummaryCall == [stage |-> "off", lines |-> <<"">>, out |-> FailedReport]

NoParse ==
    [stage |-> "off", id |-> NoId, txt_file |-> FALSE, csv_file |-> FALSE,
     txt_data |-> "", csv_data |-> "", result |-> NoResult]

NoExtract ==
    [stage |-> "off", tool |-> "", apw |-> "", password |-> "", faultAt |-> 0,
     fault |-> "raise", listing |-> <<>>, out |-> extract_zip("", "", "", 1, <<>>)]

InitServer ==
    /\ unzipTool \in UnzipTools
    /\ fs = [p \in Paths |-> Absent]
    /\ pc = [r \in Reqs |-> "idle"]
    /\ req = [r \in Reqs |-> NoReq]
    /\ sample = [r \in Reqs |-> NoSample]
    /\ resp = [r \in Reqs |-> NoResp]
    /\ hist = [r \in Reqs |-> NoHist]
    /\ cleaned = NoCleanup

\* None of the functions checked on their own has been applied.
NoCalls == ex = NoExtract /\ tl = NoTimeline /\ txt = NoSummaryCall /\ pr = NoParse

Init == InitServer /\ NoCalls

\* The other requests being handled use other identifiers (the caller
\* guarantees one identifier per concurrent analysis).
IdFree(r, id) == \A q \in Reqs \ {r} : pc[q] = "idle" \/ req[q].id # id

Answer(r, st, res) ==
    /\ resp' = [resp EXCEPT ![r] = Response(st, res)]
    /\ pc' = [pc EXCEPT ![r] = "done"]


\* ------------------------------------------------------------------------
\* POST /analyze
\* ------------------------------------------------------------------------

\* The archives and passwords of the request model: an archive holds the
\* executable run.exe (one directory down), readme.txt, both or nothing, is
\* unprotected or
\* protected by a listed or an unlisted password; a fault, if any, hits the
\* first extraction attempt.
RequestFiles == {File("run", "exe", 1), File("readme", "txt", 0)}
RequestArchivePasswords == {Unprotected, "virus", "s3cret"}
RequestPasswords == {None, "s3cret"}
RequestFaults == {0, 1}

\* analyze, lines 543-565 (and 585 for a plain upload): validate the form,
\* save the upload as {analysis_id}_upload{ext}.
analyze_receive(r, ids) ==
    /\ pc[r] = "idle"
    /\ \E hasFile \in BOOLEAN, id \in ids \cup {NoId}, zip \in BOOLEAN,
          e \in Exts, saveOk \in BOOLEAN :
         IF ~hasFile
         THEN /\ Answer(r, 400, Result(FALSE, "No file uploaded", "", None))
              /\ UNCHANGED <<fs, req, sample, hist>>
         ELSE IF id = NoId
         THEN /\ Answer(r, 400, Result(FALSE, "analysis_id required", "", None))
              /\ UNCHANGED <<fs, req, sample, hist>>
         ELSE /\ IdFree(r, id)
              /\ req' = [req EXCEPT ![r] = [id |-> id, is_zip |-> zip, ext |-> e]]
              /\ IF saveOk /\ fs[Upload(id, e)].kind # "dir"
                 THEN /\ fs' = [fs EXCEPT ![Upload(id, e)] = RegularFile]
                      /\ pc' = [pc EXCEPT ![r] = IF zip THEN "saved" ELSE "ready"]
                      /\ sample' = [sample EXCEPT ![r] =
                             IF zip THEN NoSample ELSE SamplePath(Upload(id, e), NoFile)]
                      /\ UNCHANGED <<resp, hist>>
                 ELSE \* file.save raises: the handler's except, line 595
                      /\ Answer(r, 500, Result(FALSE, "exception", "", None))
                      /\ UNCHANGED <<fs, sample, hist>>
    /\ UNCHANGED <<unzipTool, cleaned, ex, tl, txt, pr>>

AfterExtract_FallsBackToUpload(r, out) ==
    /\ sample' = [sample EXCEPT ![r] =
           IF out.sample = NoFile
           THEN SamplePath(Upload(req[r].id, req[r].ext), NoFile)
           ELSE SamplePath(ExtractDir(req[r].id), out.sample)]
    /\ pc' = [pc EXCEPT ![r] = "ready"]
    /\ UNCHANGED resp

\* analyze, lines 579-582: the answer when extract_zip returned None.
ExtractionAnswer(out) ==
    Response(400, Result(FALSE, "Failed to extract zip file", "", None))

\* analyze, lines 578-588: no sample path, answer at once; else go on to
\* run_noriben with the extracted sample.
AfterExtract(r, out) ==
    IF out.sample = NoFile
    THEN /\ Answer(r, ExtractionAnswer(out).status, ExtractionAnswer(out).body)
         /\ UNCHANGED sample
    ELSE /\ sample' = [sample EXCEPT ![r] = SamplePath(ExtractDir(req[r].id), out.sample)]
         /\ pc' = [pc EXCEPT ![r] = "ready"]
         /\ UNCHANGED resp

\* analyze, lines 568-582: extract_zip on the saved upload, then remove the
\* upload (a failure of that removal is ignored).  The archive's password
\* and content and the password form field are read here for the first time.
analyze_extract(r) ==
    /\ pc[r] = "saved"
    /\ \E password \in RequestPasswords, apw \in RequestArchivePasswords,
          faultAt \in RequestFaults, content \in SUBSET RequestFiles,
          rmOk \in BOOLEAN :
         LET id == req[r].id
             ed == ExtractDir(id)
             up == SamplePath(Upload(id, req[r].ext), NoFile)
             d0 == Mkdir(fs, ed)
         IN  \E listing \in Listings(d0[ed].files \cup content) :
               LET out == IF MkdirRaises(fs, ed)
                          THEN [backend |-> Outcome(FALSE, <<>>), sample |-> NoFile,
                                log |-> "Failed to extract zip: exception"]
                          ELSE extract_zip(unzipTool, apw, password, faultAt, listing)
                   d1  == IF out.backend.success
                          THEN [d0 EXCEPT ![ed].files = @ \cup content] ELSE d0
                   d2  == IF rmOk THEN RemoveFile(d1, up) ELSE d1
               IN  /\ fs' = d2
                   /\ hist' = [hist EXCEPT ![r].extract = out.log,
                                           ![r].failed = IF rmOk THEN {} ELSE {"upload"}]
                   /\ AfterExtract(r, out)
    /\ UNCHANGED <<unzipTool, req, cleaned, ex, tl, txt, pr>>

Return_CleanupFailureEscapes(r, d, res, h) ==
    \E sampleOk, treeOk \in BOOLEAN :
      /\ fs' = FinallyCleanup(d, sample[r], req[r].id, sampleOk, treeOk)
      /\ hist' = [hist EXCEPT ![r] =
             [h EXCEPT !.result = res,
                       !.failed = @ \cup CleanupFailures(d, sample[r], req[r].id,
                                                         sampleOk, treeOk)]]
      /\ IF CleanupFailures(d, sample[r], req[r].id, sampleOk, treeOk) = {}
         THEN Answer(r, IF res.success THEN 200 ELSE 500, res)
         ELSE Answer(r, 500, NoResult)

\* run_noriben returns `res` from the tree d (finally block, lines 451-467),
\* and analyze answers 200 or 500 (lines 590-593).
Return(r, d, res, h) ==
    \E sampleOk, treeOk \in BOOLEAN :
      /\ fs' = FinallyCleanup(d, sample[r], req[r].id, sampleOk, treeOk)
      /\ hist' = [hist EXCEPT ![r] =
             [h EXCEPT !.result = res,
                       !.failed = @ \cup CleanupFailures(d, sample[r], req[r].id,
                                                         sampleOk, treeOk)]]
      /\ Answer(r, IF res.success THEN 200 ELSE 500, res)

\* run_noriben, lines 368-410: create the output directory, check the
\* sample, spawn the monitoring tool.
run_noriben_start(r) ==
    /\ pc[r] = "ready"
    /\ LET od == OutputDir(req[r].id)
           d0 == Mkdir(fs, od)
       IN  IF MkdirRaises(fs, od)
           THEN Return(r, fs, Result(FALSE, "exception", "", None), hist[r])
           ELSE IF ~SampleExists(d0, sample[r])
           THEN Return(r, d0, Result(FALSE, "Sample file not found", "", None), hist[r])
           ELSE /\ fs' = d0
                /\ pc' = [pc EXCEPT ![r] = "spawned"]
                /\ hist' = [hist EXCEPT ![r].spawned = TRUE]
                /\ UNCHANGED resp
    /\ UNCHANGED <<unzipTool, req, sample, cleaned, ex, tl, txt, pr>>

\* The sample disappears before run_noriben looks for it (removed by the
\* host's anti-virus or an operator): the case of lines 381-386.
SampleVanishes(r) ==
    /\ pc[r] = "ready"
    /\ SampleExists(fs, sample[r])
    /\ fs' = RemoveFile(fs, sample[r])
    /\ UNCHANGED <<unzipTool, pc, req, sample, resp, hist, cleaned, ex, tl, txt, pr>>

\* run_noriben, lines 403-467: the subprocess ends (having written some of
\* its artifacts), the result is decided, the finally block runs. For an
\* analysis that returns a report, hist.written keeps the artifacts the tool
\* wrote during it.
run_noriben_finish(r) ==
    /\ pc[r] = "spawned"
    /\ \E outcome \in ToolOutcomes, stderr \in Stderrs,
          written \in SUBSET {SummaryFile, TimelineFile} :
         /\ outcome # "nonzero" => stderr = ""
         /\ LET od == OutputDir(req[r].id)
                d0 == IF fs[od].kind = "dir"
                      THEN [fs EXCEPT ![od].files = @ \cup written] ELSE fs
                dec == Supervise(outcome, stderr, d0, od)
                h  == [hist[r] EXCEPT !.tool = outcome, !.stderr = stderr,
                                      !.parsed = dec.parsed,
                                      !.written = IF dec.result.success
                                                  THEN d0[od].files \cap written
                                                  ELSE {}]
            IN  Return(r, d0, dec.result, h)
    /\ UNCHANGED <<unzipTool, req, sample, cleaned, ex, tl, txt, pr>>

\* The answer has been sent; the slot takes the next request.
Respond(r) ==
    /\ pc[r] = "done"
    /\ pc' = [pc EXCEPT ![r] = "idle"]
    /\ req' = [req EXCEPT ![r] = NoReq]
    /\ sample' = [sample EXCEPT ![r] = NoSample]
    /\ resp' = [resp EXCEPT ![r] = NoResp]
    /\ hist' = [hist EXCEPT ![r] = NoHist]
    /\ UNCHANGED <<unzipTool, fs, cleaned, ex, tl, txt, pr>>

\* ------------------------------------------------------------------------
\* DELETE /cleanup/<analysis_id>
\* ------------------------------------------------------------------------

cleanup_NoExistsCheck(id) ==
    /\ \E ok \in BOOLEAN :
         IF ~(ok /\ fs[OutputDir(id)].kind = "dir")
         THEN /\ cleaned' = [id |-> id, status |-> 500, success |-> FALSE]
              /\ UNCHANGED fs
         ELSE /\ cleaned' = [id |-> id, status |-> 200, success |-> TRUE]
              /\ fs' = Rmtree(fs, OutputDir(id))
    /\ UNCHANGED <<unzipTool, pc, req, sample, resp, hist, ex, tl, txt, pr>>

\* cleanup, lines 604-614.
cleanup(id) ==
    /\ \E ok \in BOOLEAN :
         IF Exists(fs, OutputDir(id)) /\ ~(ok /\ fs[OutputDir(id)].kind = "dir")
         THEN /\ cleaned' = [id |-> id, status |-> 500, success |-> FALSE]
              /\ UNCHANGED fs
         ELSE /\ cleaned' = [id |-> id, status |-> 200, success |-> TRUE]
              /\ fs' = Rmtree(fs, OutputDir(id))
    /\ UNCHANGED <<unzipTool, pc, req, sample, resp, hist, ex, tl, txt, pr>>

\* One caller that sends its analyses one after the other, all under the
\* same identifier, and cleans up whenever it likes.
Serial == {"r1"}
SerialIds == {<<"a">>}

Next ==
    \/ \E r \in Serial : analyze_receive(r, SerialIds)
    \/ \E r \in Serial : analyze_extract(r)
    \/ \E r \in Serial : run_noriben_start(r)
    \/ \E r \in Serial : SampleVanishes(r)
    \/ \E r \in Serial : run_noriben_finish(r)
    \/ \E r \in Serial : Respond(r)
    \/ \E id \in SerialIds : cleanup(id)

Spec == Init /\ [][Next]_vars

\* ------------------------------------------------------------------------
\* Two callers at once
\* ------------------------------------------------------------------------

\* The identifiers of two analyses that run at the same time: two different
\* strings, "a" and "a_extracted".
ConcurrentIds == {<<"a">>, <<"a", "_extracted">>}

\* The two requests of the scenario: r1 uploads an archive under "a", r2 a
\* plain executable under "a_extracted".
ConcurrentRequest(r) ==
    IF r = "r1" THEN [id |-> <<"a">>, is_zip |-> TRUE, ext |-> ".zip"]
    ELSE [id |-> <<"a", "_extracted">>, is_zip |-> FALSE, ext |-> ".exe"]

\* The handlers of Next, run by two server threads; no removal and no save
\* fails in this scenario.
NextConcurrent ==
    \/ \E r \in Reqs : /\ analyze_receive(r, ConcurrentIds)
                        /\ req'[r] = ConcurrentRequest(r)
                        /\ pc'[r] # "done"
    \/ \E r \in Reqs : analyze_extract(r) /\ hist'[r].failed = {}
    \/ \E r \in Reqs : run_noriben_start(r) /\ hist'[r].failed = {}
    \/ \E r \in Reqs : run_noriben_finish(r) /\ hist'[r].failed = {}
    \/ \E r \in Reqs : Respond(r)
    \/ \E id \in ConcurrentIds : cleanup(id) /\ cleaned'.success

SpecConcurrent == Init /\ [][NextConcurrent]_vars

\* ------------------------------------------------------------------------
\* extract_zip on drawn inputs
\* ------------------------------------------------------------------------

\* Files an extraction directory may hold after extraction.
FileUniverse ==
    {File("setup", "exe", 1), File("tool", "exe", 0), File("lib", "dll", 0),
     File("run", "ps1", 0), File("readme", "txt", 0)}

\* The most files a drawn directory holds.
MaxFiles == 3

DirectoryContents == {S \in SUBSET FileUniverse : Cardinality(S) <= MaxFiles}

InitExtract ==
    /\ InitServer
    /\ tl = NoTimeline /\ txt = NoSummaryCall /\ pr = NoParse
    /\ \E apw \in ArchivePasswords, password \in SuppliedPasswords,
          faultAt \in FaultPositions, fault \in FaultKinds,
          S \in DirectoryContents :
         \E listing \in Listings(S) :
           /\ faultAt = 0 => fault = "raise"
           /\ ex = [NoExtract EXCEPT !.stage = "input", !.tool = unzipTool,
                                     !.apw = apw, !.password = password,
                                     !.faultAt = faultAt, !.fault = fault,
                                     !.listing = listing]

\* extract_zip applied to the drawn archive, password and directory listing:
\* it returns, or it stays in the backend invocation that does not finish.
ApplyExtract ==
    /\ ex.stage = "input"
    /\ IF Hangs(ex.tool, ex.apw, ex.password, ex.faultAt, ex.fault)
       THEN ex' = [ex EXCEPT !.stage = "hung"]
       ELSE ex' = [ex EXCEPT !.stage = "done",
                             !.out = extract_zip(ex.tool, ex.apw, ex.password,
                                                ex.faultAt, ex.listing)]
    /\ UNCHANGED <<unzipTool, fs, pc, req, sample, resp, hist, cleaned, tl, txt, pr>>

NextExtract == ApplyExtract

SpecExtract == InitExtract /\ [][NextExtract]_vars

\* ------------------------------------------------------------------------
\* parse_csv_timeline on drawn files
\* ------------------------------------------------------------------------

\* The rows a timeline file is made of, before their first column is set:
\* a blank line, rows of one and two columns, rows of each category with and
\* without their trailing columns, a row of no known category (a header),
\* and the row the reader fails on.
RowTemplates ==
    {<<>>, <<"">>, <<"", "File">>,
     <<"", "Process", "CreateProcess">>,
     <<"", "Process", "CreateProcess", "mal.exe", "42", "mal.exe /s", "43">>,
     <<"", "File", "CreateFile", "notepad.exe", "1234", "C:/temp/a.txt">>,
     <<"", "File", "RenameFile", "mal.exe", "42", "C:/a", "C:/b">>,
     <<"", "File", "CreateFile", "mal.exe", "42", "C:/c", "SHA256", "ab12", "", "3">>,
     <<"", "Registry", "RegSetValue", "mal.exe", "42", "HKCU/Run", "1">>,
     <<"", "Network", "TCP Send", "mal.exe", "42", "10.0.0.1:80">>,
     <<"", "Network", "UDP">>,
     <<"", "Category", "Operation">>,
     ReaderError}

\* The most rows a drawn file has.
MaxRows == 3

\* The first column of the rows of a file, in file order.
TimeStamps == <<"t1", "t2", "t3", "t4", "t5", "t6">>

\* The rows of a file: row i carries the timestamp of position i.
Stamp(rows) ==
    [i \in 1..Len(rows) |->
        IF rows[i] = ReaderError \/ rows[i] = <<>> THEN rows[i]
        ELSE [rows[i] EXCEPT ![1] = TimeStamps[i]]]

TimelineFiles == UNION {[1..n -> RowTemplates] : n \in 0..MaxRows}

InitTimeline ==
    /\ InitServer /\ unzipTool = "7z"
    /\ ex = NoExtract /\ txt = NoSummaryCall /\ pr = NoParse
    /\ \E rows \in TimelineFiles :
         tl = [NoTimeline EXCEPT !.stage = "input", !.rows = Stamp(rows)]

\* parse_csv_timeline applied to the drawn file.
ApplyTimeline ==
    /\ tl.stage = "input"
    /\ tl' = [tl EXCEPT !.stage = "done", !.events = parse_csv_timeline(tl.rows)]
    /\ UNCHANGED <<unzipTool, fs, pc, req, sample, resp, hist, cleaned, ex, txt, pr>>

NextTimeline == ApplyTimeline

SpecTimeline == InitTimeline /\ [][NextTimeline]_vars

\* ------------------------------------------------------------------------
\* parse_txt_report on drawn files
\* ------------------------------------------------------------------------

SectionHeadings ==
    {"Processes Created:", "File Activity:", "Registry Activity:",
     "Network Traffic:", "Unique Hosts:"}

\* What follows the rule of a section: nothing but the blank line, one entry
\* and the blank line, or two entries around a line of spaces with no blank
\* line after them.
SectionBodies ==
    {<<"">>, <<"[CreateProcess] mal.exe", "">>, <<"10.0.0.1 ", "  ", "10.0.0.2">>}

\* The pieces a summary file is made of: the three timing lines, a timing
\* line whose number is no number, a heading under a rule that is too short,
\* and the sections.
SummaryBlocks ==
    {<<"Execution time: 12.5 seconds">>, <<"Execution time: 1.2.3 seconds">>,
     <<"Processing time: 3.0 seconds">>, <<"Analysis time: 7 seconds">>,
     <<"Processes Created:", ShortRule, "[CreateProcess] old.exe", "">>}
    \cup {<<h, Rule>> \o body : h \in SectionHeadings, body \in SectionBodies}

\* The most pieces a drawn file has.
MaxBlocks == 3

RECURSIVE Concat(_, _)
Concat(blocks, i) ==
    IF i > Len(blocks) THEN <<>> ELSE blocks[i] \o Concat(blocks, i + 1)

\* The drawn texts, each ending with a newline.
SummaryFiles ==
    {Concat(blocks, 1) \o <<"">> :
        blocks \in UNION {[1..n -> SummaryBlocks] : n \in 0..MaxBlocks}}

InitSummary ==
    /\ InitServer /\ unzipTool = "7z"
    /\ ex = NoExtract /\ tl = NoTimeline /\ pr = NoParse
    /\ \E lines \in SummaryFiles :
         txt = [NoSummaryCall EXCEPT !.stage = "input", !.lines = lines]

\* parse_txt_report applied to the drawn file.
ApplySummary ==
    /\ txt.stage = "input"
    /\ txt' = [txt EXCEPT !.stage = "done", !.out = parse_txt_report(txt.lines)]
    /\ UNCHANGED <<unzipTool, fs, pc, req, sample, resp, hist, cleaned, ex, tl, pr>>

NextSummary == ApplySummary

SpecSummary == InitSummary /\ [][NextSummary]_vars

\* ------------------------------------------------------------------------
\* parse_results, step by step, while DELETE /cleanup requests are served
\* ------------------------------------------------------------------------

\* The analyses whose output directory is parsed or cleaned up.
ParseIds == {<<"a">>, <<"b">>}

\* run_noriben has created the output directory of its analysis and the
\* tool has exited with code 0, having written some of its artifacts;
\* parse_results is about to be called (line 426).
InitParse ==
    /\ unzipTool = "7z"
    /\ pc = [r \in Reqs |-> "idle"]
    /\ req = [r \in Reqs |-> NoReq]
    /\ sample = [r \in Reqs |-> NoSample]
    /\ resp = [r \in Reqs |-> NoResp]
    /\ hist = [r \in Reqs |-> NoHist]
    /\ cleaned = NoCleanup
    /\ ex = NoExtract /\ tl = NoTimeline /\ txt = NoSummaryCall
    /\ \E id \in ParseIds, S \in SUBSET {SummaryFile, TimelineFile} :
         /\ fs = [p \in Paths |-> IF p = OutputDir(id) THEN Dir(S) ELSE Absent]
         /\ pr = [NoParse EXCEPT !.stage = "called", !.id = id]

\* lines 472-481: the two globs; None when one of them finds nothing.
parse_results_glob ==
    /\ pr.stage = "called"
    /\ LET txt_files == TxtFiles(fs, OutputDir(pr.id))
           csv_files == CsvFiles(fs, OutputDir(pr.id))
       IN  IF txt_files = {} \/ csv_files = {}
           THEN pr' = [pr EXCEPT !.stage = "returned", !.result = ReportResult(None)]
           ELSE pr' = [pr EXCEPT !.stage = "located", !.txt_file = TRUE,
                                 !.csv_file = TRUE]
    /\ UNCHANGED <<unzipTool, fs, pc, req, sample, resp, hist, cleaned, ex, tl, txt>>

\* Whether open(file) succeeds: never for a file that is no longer there,
\* and not always for one that is (it may be locked or unreadable).
Opens(d, id, file) ==
    IF d[OutputDir(id)].kind = "dir" /\ file \in d[OutputDir(id)].files
    THEN BOOLEAN ELSE {FALSE}

\* line 486 with lines 60 and 111-113: the summary file is parsed, or open()
\* raises and parse_txt_report returns its empty result.
parse_results_txt ==
    /\ pr.stage = "located"
    /\ \E opened \in Opens(fs, pr.id, SummaryFile) :
         pr' = [pr EXCEPT !.stage = "summary",
                          !.txt_data = IF opened THEN "parsed" ELSE "empty"]
    /\ UNCHANGED <<unzipTool, fs, pc, req, sample, resp, hist, cleaned, ex, tl, txt>>

\* line 487 with lines 127 and 201-203, then lines 489-504: the timeline
\* file is parsed, or open() raises and parse_csv_timeline returns its empty
\* collections; the report, a dict of six keys, is returned and run_noriben
\* builds its result from it.
parse_results_csv ==
    /\ pr.stage = "summary"
    /\ \E opened \in Opens(fs, pr.id, TimelineFile) :
         pr' = [pr EXCEPT !.stage = "returned",
                          !.csv_data = IF opened THEN "parsed" ELSE "empty",
                          !.result = ReportResult("report")]
    /\ UNCHANGED <<unzipTool, fs, pc, req, sample, resp, hist, cleaned, ex, tl, txt>>

NextParse ==
    \/ parse_results_glob
    \/ parse_results_txt
    \/ parse_results_csv
    \/ \E id \in ParseIds : cleanup(id)

SpecParse == InitParse /\ [][NextParse]_vars

\* ------------------------------------------------------------------------
\* Properties
\* ------------------------------------------------------------------------

\* Request r has been answered and run_noriben was called for it.
Ran(r) == pc[r] = "done" /\ hist[r].result # NoResult

\* C1: whenever run_noriben returns, on every exit path, the sample file and
\* the directory {analysis_id}_extracted no longer exist, provided neither
\* removal of the finally block failed.
C1_CleanupOnEveryExit ==
    \A r \in Reqs :
        Ran(r) /\ hist[r].failed \cap {"sample", "extract_dir"} = {}
        => /\ ~SampleExists(fs, sample[r])
           /\ ~Exists(fs, ExtractDir(req[r].id))

\* run_noriben returned on the "sample missing" path of an extracted sample,
\* with the extraction directory still to be removed.
C1_Witness ==
    \E r \in Reqs :
        /\ Ran(r) /\ req[r].is_zip /\ hist[r].failed = {}
        /\ hist[r].result.error = "Sample file not found"
        /\ ~Exists(fs, ExtractDir(req[r].id))

C3_OnlyOutputDirRemains ==
    \A r \in Reqs :
        pc[r] = "done" /\ req[r].id \in Ids /\ hist[r].failed = {}
        => /\ ~Exists(fs, Upload(req[r].id, req[r].ext))
           /\ sample[r] # NoSample => ~SampleExists(fs, sample[r])
           /\ ~Exists(fs, ExtractDir(req[r].id))

ExtractFailureLogs ==
    {"Failed to extract zip file", "No executable found in zip",
     "Failed to extract zip: exception"}

\* C4: when extraction fails, the request is answered with an error at once,
\* run_noriben is not called and the tool is not spawned; in an is_zip
\* request the tool is spawned only on a sample path extract_zip returned.
C4_NoSpawnAfterFailedExtraction ==
    \A r \in Reqs :
        /\ hist[r].extract \in ExtractFailureLogs
           => /\ pc[r] = "done"
              /\ ~hist[r].spawned
              /\ hist[r].result = NoResult
              /\ resp[r].status = 400 /\ ~resp[r].body.success
              /\ resp[r].body.error # ""
        /\ req[r].is_zip /\ (hist[r].spawned \/ pc[r] \in {"ready", "spawned"})
           => /\ hist[r].extract = "Extracted executable"
              /\ sample[r].top = ExtractDir(req[r].id)
              /\ sample[r].inner # NoFile

\* An archive without executable was extracted and the request answered.
C4_Witness ==
    \E r \in Reqs :
        /\ pc[r] = "done" /\ req[r].is_zip
        /\ hist[r].extract = "No executable found in zip"
        /\ resp[r].status = 400

\* ---- extract_zip (SpecExtract) -----------------------------------------

\* The fallback list of the specification.
FallbackList == <<"infected", "malware", "virus", "password">>
FallbackSet == {FallbackList[i] : i \in 1..Len(FallbackList)}

Extracted == ex.stage = "done"
Attempts == ex.out.backend.attempts
AttemptOk(i) == Invoke(ex.apw, Attempts[i], i, ex.faultAt) = "ok"

\* C5: with a password exactly one attempt, with that password; without, the
\* attempts are a prefix of [no password] + fallback list that stops at the
\* first success; success is reported iff some attempt succeeded.
C5_PasswordPolicy ==
    Extracted =>
        /\ Truthy(ex.password) => Attempts = <<ex.password>>
        /\ ~Truthy(ex.password) =>
              /\ Len(Attempts) \in 1..(1 + Len(FallbackList))
              /\ Attempts[1] \in {None, ""}
              /\ \A i \in 2..Len(Attempts) : Attempts[i] = FallbackList[i - 1]
        /\ \A i \in 1..(Len(Attempts) - 1) : ~AttemptOk(i)
        /\ ex.out.backend.success <=> \E i \in 1..Len(Attempts) : AttemptOk(i)

\* The python backend found the third fallback password.
C5_Witness ==
    /\ Extracted /\ ex.tool = "python" /\ ex.password = None
    /\ ex.apw = "virus" /\ ex.out.backend.success
    /\ Attempts = <<None, "infected", "malware", "virus">>

\* C6 as stated, for the python backend: with no password supplied, an
\* archive protected by a password of the fallback list is extracted, also
\* when an earlier, wrong password of the list makes zipfile raise something
\* other than RuntimeError.
C6_ListedPasswordExtracted ==
    Extracted /\ ex.tool = "python" /\ ~Truthy(ex.password) /\ ex.apw \in FallbackSet
    /\ (ex.faultAt = 0 \/ (ex.faultAt >= 2 /\ FallbackList[ex.faultAt - 1] # ex.apw))
    => ex.out.backend.success

\* The priority order of the specification.
PriorityOrder == <<"exe", "dll", "scr", "bat", "cmd", "ps1">>
Rank(e) == CHOOSE i \in 1..Len(PriorityOrder) : PriorityOrder[i] = e
Listed == {ex.listing[i] : i \in 1..Len(ex.listing)}
ExecutableListed ==
    {f \in Listed : \E i \in 1..Len(PriorityOrder) : PriorityOrder[i] = f.ext}

\* C7: after a successful extraction the sample returned is a file of the
\* directory whose extension is the earliest of the priority order among
\* those present, under every enumeration order; without such a file the
\* result is a failure.
C7_HighestPriorityExtension ==
    Extracted /\ ex.out.backend.success =>
        IF ExecutableListed = {}
        THEN ex.out.sample = NoFile
        ELSE /\ ex.out.sample \in ExecutableListed
             /\ \A f \in ExecutableListed : Rank(ex.out.sample.ext) <= Rank(f.ext)

\* The listing starts with a .ps1 and a .dll of the directory itself; the
\* .exe one directory down is returned.
C7_Witness ==
    /\ Extracted /\ ex.out.backend.success
    /\ Len(ex.listing) = 3
    /\ ex.listing[1].ext = "ps1" /\ ex.listing[2].ext = "dll"
    /\ ex.out.sample = File("setup", "exe", 1)

\* ---- outcomes ----------------------------------------------------------

\* An extraction in which no attempt succeeded.
FailedExtraction == extract_zip("7z", "s3cret", None, 0, <<>>)

\* C8 as stated: the answer for an archive that was extracted but holds no
\* executable differs from the answer given when no attempt succeeded.
C8_FailureReasonsDistinct ==
    \A r \in Reqs :
        pc[r] = "done" /\ hist[r].extract = "No executable found in zip"
        => resp[r] # ExtractionAnswer(FailedExtraction)

TimeoutResult == Result(FALSE, "Analysis timeout", "", None)

\* C9 as stated: after a timeout run_noriben returns the timeout failure and
\* the sample file is gone.
C9_TimeoutThenSampleRemoved ==
    \A r \in Reqs :
        pc[r] = "done" /\ hist[r].tool = "timeout"
        => /\ hist[r].result = TimeoutResult
           /\ ~SampleExists(fs, sample[r])

\* C9 amended: after a timeout run_noriben returns the timeout failure (no
\* report, never success), and the sample file is gone unless its removal
\* failed.
C9_TimeoutThenRemovalAttempted ==
    \A r \in Reqs :
        pc[r] = "done" /\ hist[r].tool = "timeout"
        => /\ hist[r].result = TimeoutResult
           /\ resp[r] = Response(500, TimeoutResult)
           /\ ~hist[r].parsed
           /\ "sample" \in hist[r].failed \/ ~SampleExists(fs, sample[r])

\* The tool timed out on a plain upload, whose removal succeeded.
C9_Witness ==
    \E r \in Reqs :
        /\ pc[r] = "done" /\ hist[r].tool = "timeout" /\ ~req[r].is_zip
        /\ hist[r].failed = {}
        /\ ~Exists(fs, Upload(req[r].id, req[r].ext))

\* C10: a nonzero exit gives the failure 'Noriben execution failed' with the
\* captured stderr, without a call of the parser, and /analyze passes that
\* failure on with status 500.
C10_NonzeroExitIsFailure ==
    \A r \in Reqs :
        pc[r] = "done" /\ hist[r].tool = "nonzero"
        => /\ hist[r].result =
                 Result(FALSE, "Noriben execution failed", hist[r].stderr, None)
           /\ ~hist[r].parsed
           /\ resp[r] = Response(500, hist[r].result)

\* The tool wrote both artifacts and then exited nonzero with a message on
\* stderr.
C10_Witness ==
    \E r \in Reqs :
        /\ pc[r] = "done" /\ hist[r].tool = "nonzero"
        /\ hist[r].stderr = "procmon not found"
        /\ parse_results(fs, OutputDir(req[r].id)) # None

\* ---- parse failure, status codes, structured answers -------------------

\* The error messages of the paths on which the tool did not exit with 0
\* (nonzero exit, timeout, exception) or was not started.
ExecutionFailureMessages ==
    {"Noriben execution failed", "Analysis timeout", "exception",
     "Sample file not found"}

ParseFailure == Result(FALSE, "Failed to parse Noriben output", "", None)

\* C11: the parser is called exactly when the tool has exited with code 0;
\* when the summary or the timeline file is then absent from the output
\* directory, run_noriben returns a failure whose message is none of the
\* execution-failure or timeout messages, and /analyze answers it with 500.
C11_ParseFailureIsDistinct ==
    [][\A r \in Reqs :
         pc[r] # "done" /\ pc'[r] = "done" /\ hist'[r].result # NoResult
         => LET od == OutputDir(req[r].id)
                h  == hist'[r]
            IN  /\ h.parsed <=> h.tool = "exit0"
                /\ h.tool = "exit0"
                   /\ (TxtFiles(fs', od) = {} \/ CsvFiles(fs', od) = {})
                   => /\ h.result = ParseFailure
                      /\ h.result.error \notin ExecutionFailureMessages
                      /\ resp'[r] = Response(500, ParseFailure)
      ]_vars

\* The tool exited with 0 having written the summary but not the timeline.
C11_Witness ==
    \E r \in Reqs :
        /\ pc[r] = "done" /\ hist[r].tool = "exit0" /\ hist[r].parsed
        /\ hist[r].result = ParseFailure
        /\ TxtFiles(fs, OutputDir(req[r].id)) # {}
        /\ CsvFiles(fs, OutputDir(req[r].id)) = {}

CallerInputErrors == {"No file uploaded", "analysis_id required"}

\* C12 as stated: 200 only when extraction (if is_zip), execution and parsing
\* all succeeded; 400 exactly for the caller input errors (missing file,
\* missing analysis_id), 500 for extraction, execution and parse errors;
\* every answer other than 200 has success false and an error string.
C12_StatusByErrorClass ==
    \A r \in Reqs :
        pc[r] = "done"
        => /\ resp[r].status = 200
              <=> /\ resp[r].body.success /\ hist[r].result.success
                  /\ req[r].is_zip => hist[r].extract = "Extracted executable"
           /\ resp[r].status = 400 <=> resp[r].body.error \in CallerInputErrors
           /\ resp[r].status # 200
              => /\ resp[r].status \in {400, 500}
                 /\ ~resp[r].body.success /\ resp[r].body.error # ""

\* {success: true, report} or {success: false, error}
Structured(b) ==
    \/ b.success /\ b.report # None /\ b.error = ""
    \/ ~b.success /\ b.report = None /\ b.error # ""

\* C13: every answered request has a structured answer, whatever failed on
\* the way (saving the upload, extraction, the tool, parsing, the removals);
\* the answer after run_noriben is its result, also when a removal failed.
C13_StructuredResponse ==
    \A r \in Reqs :
        /\ pc[r] = "done"
           => /\ resp[r].status \in {200, 400, 500}
              /\ Structured(resp[r].body)
              /\ resp[r].status = 200 <=> resp[r].body.success
        /\ Ran(r) => resp[r].body = hist[r].result

\* The removal of the upload, of the sample and of the extraction directory
\* all failed, and the request was answered with the report.
C13_Witness ==
    \E r \in Reqs :
        /\ pc[r] = "done" /\ hist[r].failed = {"upload", "sample", "extract_dir"}
        /\ resp[r].status = 200 /\ resp[r].body.report # None

\* ---- DELETE /cleanup ---------------------------------------------------

Decided(r) ==
    LET od == OutputDir(req[r].id)
    IN  IF pc[r] = "ready"
        THEN IF MkdirRaises(fs, od) THEN Result(FALSE, "exception", "", None)
             ELSE Result(FALSE, "Sample file not found", "", None)
        ELSE Supervise(hist'[r].tool, hist'[r].stderr, fs', od).result

\* C17: the value run_noriben returns, and /analyze answers, is the one
\* decided before the finally block, whichever removal fails; and when the
\* removal of the sample fails, the extraction directory is still removed
\* (unless that removal fails as well).
C17_CleanupFailureKeepsOutcome ==
    [][\A r \in Reqs :
         pc[r] # "done" /\ pc'[r] = "done" /\ hist'[r].result # NoResult
         => /\ hist'[r].result = Decided(r)
            /\ resp'[r] = Response(IF Decided(r).success THEN 200 ELSE 500, Decided(r))
            /\ "sample" \in hist'[r].failed /\ "extract_dir" \notin hist'[r].failed
               => ~Exists(fs', ExtractDir(req[r].id))
      ]_vars

\* The removal of the extracted sample failed; the analysis is still a
\* success and the extraction directory is gone.
C17_Witness ==
    \E r \in Reqs :
        /\ Ran(r) /\ req[r].is_zip /\ hist[r].result.success
        /\ "sample" \in hist[r].failed /\ "extract_dir" \notin hist[r].failed
        /\ ~Exists(fs, ExtractDir(req[r].id))


\* ---- concurrent analyses -----------------------------------------------

\* The paths of the working directory that belong to an identifier.
Workspace(id) == {OutputDir(id), ExtractDir(id)} \cup {Upload(id, e) : e \in Exts}

\* Request q is being handled: its upload is saved, its answer not yet sent.
Active(q) == pc[q] \in {"saved", "ready", "spawned"}

\* C15 as stated: while an analysis is running, no step of another analysis
\* with a different identifier, and no DELETE /cleanup of a different
\* identifier, creates, overwrites or deletes a path of its workspace.
C15_WorkspacesIsolated ==
    [][\A q \in Reqs :
         Active(q)
         => /\ \A r \in Reqs \ {q} :
                 pc'[r] # pc[r] /\ req'[r].id # req[q].id
                 => \A p \in Workspace(req[q].id) : fs'[p] = fs[p]
            /\ \A id \in Ids \ {req[q].id} :
                 cleanup(id) => \A p \in Workspace(req[q].id) : fs'[p] = fs[p]
      ]_vars


\* ---- the 30 s bound of a backend invocation (SpecExtract) --------------

\* The attempt ex.faultAt is made and does not finish.
AttemptHangs ==
    /\ ex.fault = "hang"
    /\ ex.faultAt \in 1..Len(RunBackend(ex.tool, ex.apw, ex.password, ex.faultAt).attempts)

\* C16 as stated: in every backend, when an attempt does not finish,
\* extract_zip still returns: the backend reports failure and the attempt cut
\* off is the last one it made.
C16_HangingAttemptIsCutOff ==
    ex.stage \in {"done", "hung"} /\ AttemptHangs
    => /\ ex.stage = "done"
       /\ ~ex.out.backend.success
       /\ Len(Attempts) = ex.faultAt
       /\ ex.out.sample = NoFile


\* ---- parse_csv_timeline (SpecTimeline) ---------------------------------

Parsed == tl.stage = "done"

Categories == {"Process", "File", "Registry", "Network"}

\* The event collection of a category.
Collection(c) ==
    IF c = "Process" THEN tl.events.process_activity
    ELSE IF c = "File" THEN tl.events.file_system
    ELSE IF c = "Registry" THEN tl.events.registry
    ELSE tl.events.network

TotalEvents ==
    Len(tl.events.process_activity) + Len(tl.events.file_system)
    + Len(tl.events.registry) + Len(tl.events.network)

\* The positions of the rows the reader yields: all of them, or those before
\* the row it fails on.
RowsRead ==
    {i \in 1..Len(tl.rows) : \A j \in 1..i : tl.rows[j] # ReaderError}

\* The rows of the file with at least 3 columns.
LongRows == {i \in 1..Len(tl.rows) : tl.rows[i] # ReaderError /\ Len(tl.rows[i]) >= 3}

\* The rows read that have at least 3 columns and the category c.
KeptRows(c) == {i \in RowsRead : Len(tl.rows[i]) >= 3 /\ tl.rows[i][2] = c}

\* The positions in the collection of c of the events made from row i.
EventsOf(c, i) ==
    {k \in 1..Len(Collection(c)) : Collection(c)[k].timestamp = TimeStamps[i]}

\* The row an event was made from.
RowOf(e) == CHOOSE i \in 1..Len(TimeStamps) : TimeStamps[i] = e.timestamp

\* C18 as stated: the number of events equals the number of rows with at
\* least 3 columns (stated here for the files the reader reads to the end).
C18_EveryLongRowIsAnEvent ==
    Parsed /\ RowsRead = 1..Len(tl.rows)
    => TotalEvents = Cardinality(LongRows)

\* C18 amended: a row the reader yields makes exactly one event, in the
\* collection of its category, when it has at least 3 columns and its
\* category is one of the four, with the missing trailing fields empty; every
\* other row makes no event; the number of events is the number of those rows.
C18_LongRowsOfKnownCategory ==
    Parsed =>
        /\ \A i \in 1..Len(tl.rows) : \A c \in Categories :
             /\ Cardinality(EventsOf(c, i)) = IF i \in KeptRows(c) THEN 1 ELSE 0
             /\ \A k \in EventsOf(c, i) :
                  /\ Collection(c)[k].process_name =
                        IF Len(tl.rows[i]) >= 4 THEN tl.rows[i][4] ELSE ""
                  /\ Collection(c)[k].pid =
                        IF Len(tl.rows[i]) >= 5 THEN tl.rows[i][5] ELSE ""
        /\ TotalEvents = Cardinality(UNION {KeptRows(c) : c \in Categories})

\* A file of a 3-column Process row, a header row and a 2-column row: one
\* event, with empty process_name and pid.
C18_Witness ==
    /\ Parsed /\ Len(tl.rows) = 3
    /\ tl.rows[1] = <<"t1", "Process", "CreateProcess">>
    /\ tl.rows[2] = <<"t2", "Category", "Operation">>
    /\ tl.rows[3] = <<"t3", "File">>
    /\ TotalEvents = 1
    /\ tl.events.process_activity[1].process_name = ""

\* C19: every collection lists its events in the order of their rows: it
\* holds one event for each row read that has at least 3 columns and its
\* category, in increasing row position; a shorter row in between changes
\* nothing.
C19_SourceOrderPreserved ==
    Parsed =>
        \A c \in Categories :
            /\ \A k1, k2 \in 1..Len(Collection(c)) :
                 k1 < k2 => RowOf(Collection(c)[k1]) < RowOf(Collection(c)[k2])
            /\ {RowOf(Collection(c)[k]) : k \in 1..Len(Collection(c))} = KeptRows(c)
            /\ Len(Collection(c)) = Cardinality(KeptRows(c))

\* Two File rows with a 2-column row between them: both events, in order.
C19_Witness ==
    /\ Parsed /\ Len(tl.rows) = 3
    /\ Len(tl.rows[1]) >= 3 /\ tl.rows[1][2] = "File"
    /\ tl.rows[2] = <<"t2", "File">>
    /\ Len(tl.rows[3]) >= 3 /\ tl.rows[3][2] = "File"
    /\ Len(tl.events.file_system) = 2
    /\ tl.events.file_system[1].timestamp = "t1"
    /\ tl.events.file_system[2].timestamp = "t3"

\* C20 as stated: when the reader fails on a Registry row, the process, file
\* and network collections still hold an event for every row of their
\* category with at least 3 columns, wherever it is in the file.
C20_OtherCategoriesComplete ==
    Parsed /\ (\E j \in 1..Len(tl.rows) : tl.rows[j] = ReaderError)
    => \A c \in Categories \ {"Registry"} :
         \A i \in LongRows : tl.rows[i][2] = c => EventsOf(c, i) # {}


\* ---- parse_txt_report (SpecSummary) ------------------------------------

Summarised == txt.stage = "done"

\* The result when a conversion that raises resets its own field only.
PerFieldDefaults(lines) ==
    [summary |->
        [execution_time |-> IF TimeRaises(lines, "Execution") THEN 0
                            ELSE TimeValue(lines, "Execution"),
         processing_time |-> IF TimeRaises(lines, "Processing") THEN 0
                             ELSE TimeValue(lines, "Processing"),
         analysis_time |-> IF TimeRaises(lines, "Analysis") THEN 0
                           ELSE TimeValue(lines, "Analysis"),
         processes_created |-> SectionCount(lines, "Processes Created:"),
         files_created |-> SectionCount(lines, "File Activity:"),
         registry_modified |-> SectionCount(lines, "Registry Activity:"),
         network_connections |-> SectionCount(lines, "Network Traffic:")],
     unique_hosts |-> UniqueHosts(lines)]

\* C21 as stated: when the number of a timing line cannot be converted, only
\* that field has its default; the other timing fields, the four counts and
\* the unique hosts are those of the file (stated here for the files that
\* have a processing time to lose).
C21_OnlyFailingFieldReset ==
    Summarised
    /\ (\E label \in {"Execution", "Processing", "Analysis"} : TimeRaises(txt.lines, label))
    /\ TimeValue(txt.lines, "Processing") > 0
    => txt.out = PerFieldDefaults(txt.lines)

\* The lines of the text after the rule of the first section with this
\* heading, up to the first empty line or the end of the text, that are not
\* blank.
SectionLines(heading) ==
    LET first == GroupStart(txt.lines, heading)
        Stops == {j \in first..Len(txt.lines) : txt.lines[j] = ""}
        stop  == IF Stops = {} THEN Len(txt.lines) + 1
                 ELSE CHOOSE j \in Stops : \A k \in Stops : j <= k
    IN  IF first = 0 THEN {}
        ELSE {i \in first..(stop - 1) : Strip(txt.lines[i]) # ""}

\* The value of the summary for a heading.
CountOf(heading) ==
    IF heading = "Processes Created:" THEN txt.out.summary.processes_created
    ELSE IF heading = "File Activity:" THEN txt.out.summary.files_created
    ELSE IF heading = "Registry Activity:" THEN txt.out.summary.registry_modified
    ELSE txt.out.summary.network_connections

\* C22 as stated: each of the four counts is the number of non-blank lines
\* between the section's rule and the first following blank line or the end
\* of the text: 0 when the blank line follows the rule at once, and no line
\* of a later section is counted.
C22_CountIsSectionLines ==
    Summarised /\ txt.out # FailedReport
    => \A heading \in SectionHeadings \ {"Unique Hosts:"} :
         CountOf(heading) = Cardinality(SectionLines(heading))


\* ---- parse_results (SpecParse) -----------------------------------------

\* parse_results has returned and run_noriben has built its result.
ParseReturned == pr.stage = "returned"

\* C23 as stated: the result is a success only when both artifacts were
\* found and read; when either is missing or cannot be read at the time it
\* is parsed, also because a DELETE /cleanup removed it after it was
\* located, the result is the parse failure.
C23_SuccessOnlyWhenBothRead ==
    ParseReturned
    => (pr.result.success <=> pr.txt_data = "parsed" /\ pr.csv_data = "parsed")


\* ---- output files of an earlier analysis (Spec) ------------------------

\* C24 as stated: a report returned with success was parsed from the two
\* files the monitoring tool wrote during that same analysis, never from
\* files an earlier analysis with the same identifier left in the output
\* directory.
C24_ReportFromOwnFiles ==
    \A r \in Reqs :
        Ran(r) /\ hist[r].result.success /\ hist[r].failed = {}
        => {SummaryFile, TimelineFile} \subseteq hist[r].written

====
